---- MODULE Spec2Model ----
(***************************************************************************)
(* The asynchronous zbus Connection (zbus/src/azync/connection.rs): the    *)
(* send sink, the receive stream, the call_method reply correlator, the    *)
(* serial counter, and a peer on the other end of the socket.              *)
(*                                                                         *)
(* ConnectionCommon, the raw connection and Message are not part of the    *)
(* sources at hand; what the Connection calls on them (next_serial, the    *)
(* in-queue lock, enqueue_message, try_flush, try_receive_message) is      *)
(* modelled from their description.  The in-queue is a Vec: call_method    *)
(* appends a `vec![]` to it with Vec::append and poll_next takes from it   *)
(* with pop().                                                             *)
(*                                                                         *)
(* The codec of the string types (src/str.rs): encode, extract_slice and   *)
(* decode of &str, ObjectPath and Signature, on strings given as bytes.    *)
(***************************************************************************)
EXTENDS Integers, Sequences, FiniteSets, TLC

\* ---------------------------------------------------------------- bounds

\* Width of the serial counter.  The program's counter is a u32; the model
\* keeps the wrap-around and scales the width down.
SerialBits == 2

\* Unsolicited signals the peer may send.
MaxSignals == 2

\* Largest value set_max_queued is called with.
MaxQueuedArg == 1

\* Chunks a serialized message is written in (a write may stop between them).
MsgChunks == 2

\* Messages the sending tasks send in the specification of the sink.
MaxSends == 3

\* Messages the peer writes that do not parse.
MaxMalformed == 1

\* Longest string over the alphabet that goes through the codec.
MaxStrLen == 3

\* Largest n_bytes_before a value is encoded at.
MaxOffset == 15

\* Most bytes that follow an encoded value in its message.
MaxTail == 1

\* Length of the longest value that goes through the codec: the first
\* length that one byte does not hold.
LongLen == 256

\* Most bytes of an input handed to extract_slice and decode as it came.
MaxRawLen == 6

\* Unique names the message bus hands out.
MaxNames == 2

\* ------------------------------------------------------------- constants

\* ConnectionCommon's default for max_queued.
DEFAULT_MAX_QUEUED == 64

U32_MAX == 2^SerialBits - 1

\* Serials handed out in the specification of the serial counter: one wrap
\* and two more.
MaxIssued == U32_MAX + 2

\* The tasks that share the connection; task t calls the method "Test<t>".
Tasks == {1, 2}

\* no task: the holder of a lock that is free
NoTask == 0

\* a codec result that is not there yet
NoBytes == [ok |-> FALSE, err |-> "None", bytes |-> <<>>]

\* the unique-name cell while unset; also a body that is not one string
NoName == 0

NoMsg == [type |-> "None", serial |-> 0, reply_serial |-> 0, member |-> 0,
          fds |-> FALSE, seq |-> 0, body |-> NoName]

\* what a task's operation returned; `at` is the number of serials handed out
\* by then (0 while it has not returned)
NoResult == [kind |-> "None", msg |-> NoMsg, at |-> 0]

VARIABLES
    serial,        \* ConnectionCommon: the next serial number to hand out
    max_queued,    \* ConnectionCommon: bound used by call_method
    cap_unix_fd,   \* ConnectionCommon: fd-passing negotiated in the handshake
    in_queue,      \* ConnectionCommon: Vec<Message> behind the in-queue lock
    outbound,      \* raw connection: serialized bytes not yet written
    out_fds,       \* raw connection: fds waiting to go with a write
    wire,          \* every chunk written to the socket so far, in order
    sock_in,       \* messages the peer wrote that the client has not read
    closed,        \* the peer closed its end
    pc,            \* per task: where its call_method / send is
    msg,           \* per task: the message it is sending
    tmp_queue,     \* per task: call_method's tmp_queue
    cur,           \* per task: the message try_next just returned
    result,        \* per task: what call_method returned
    answered,      \* peer: members of the calls it has replied to
    nsignals,      \* peer: signals sent
    delivered,     \* what the receive stream yielded to the stream consumer,
                   \* each with where poll_next took it from
    stream_ended,  \* the receive stream returned end-of-stream
    dropped,       \* seq numbers of received messages that were discarded
    issued,        \* log of <<task, serial>> handed out by next_serial
    unique_name,   \* ConnectionCommon: the unique-name cell (NoName while unset)
    bus_connection,\* the connection was opened as a client bus connection
    hs,            \* the state of the authentication state machine
    role,          \* the side of the handshake this end plays
    owner,         \* who holds the Connection value: its constructor, the
                   \* user, or nobody once it was dropped
    name_result,   \* what the last set_unique_name returned
    nbad,          \* peer: messages written that do not parse
    raw_lock,      \* the task holding the raw-connection lock (NoTask: free)
    queue_lock,    \* the task holding the in-queue lock (NoTask: free)
    raw_readers,   \* the tasks holding a read guard of the raw-connection lock
    shut,          \* this end has half-closed the socket
    cpc,           \* codec: how far the value has gone through the codec
    ckind,         \* codec: the type of the value ("s", "o" or "g")
    cval,          \* codec: the value, as the bytes of its string
    coff,          \* codec: n_bytes_before, the offset the value is encoded at
    ctail,         \* codec: bytes that follow the encoded value in the message
    cbytes,        \* codec: what encode returned
    cslice,        \* codec: what extract_slice returned
    cout,          \* codec: what decode returned
    lost           \* per task: seq numbers of the messages its call_method had
                   \* retained in tmp_queue when that tmp_queue went away
                   \* on a receive error or with the dropped future

conn_vars == <<serial, max_queued, cap_unix_fd, in_queue>>
raw_vars  == <<outbound, out_fds, wire, sock_in, closed>>
task_vars == <<pc, msg, tmp_queue, cur, result>>
peer_vars == <<answered, nsignals>>
hist_vars == <<delivered, stream_ended, dropped, issued>>
name_vars == <<unique_name, bus_connection, owner, name_result, hs, role>>
fault_vars == <<nbad, lost>>
lock_vars == <<raw_lock, queue_lock>>
codec_vars == <<cpc, ckind, cval, coff, ctail, cbytes, cslice, cout>>
close_vars == <<raw_readers, shut>>
more_vars == <<lock_vars, codec_vars, close_vars>>
ext_vars == <<name_vars, fault_vars, more_vars>>
vars == <<conn_vars, raw_vars, task_vars, peer_vars, hist_vars, ext_vars>>

\* ------------------------------------------------------------- helpers

Range(s) == {s[i] : i \in 1..Len(s)}

RECURSIVE SeqOfChunks(_, _)
SeqOfChunks(m, i) ==
    IF i > MsgChunks THEN <<>> ELSE <<[m |-> m, i |-> i]>> \o SeqOfChunks(m, i + 1)

\* Message::to_bytes, as the chunks a write can stop between.
ToBytes(m) == SeqOfChunks(m, 1)

\* Message::method with the body `()`: a MethodCall without a serial yet.
\* `seq` tells the messages of the model apart: the n-th message the client
\* built, the n-th message the peer wrote.
MessageMethod(t, n) ==
    [type |-> "MethodCall", serial |-> 0, reply_serial |-> 0, member |-> t,
     fds |-> FALSE, seq |-> n, body |-> NoName]

\* Message::signal; its body may carry file descriptors.
MessageSignal(t, f, n) ==
    [type |-> "Signal", serial |-> 0, reply_serial |-> 0, member |-> t,
     fds |-> f, seq |-> n, body |-> NoName]

\* ---------------------------------------------------------------- codec

\* <&str as VariantType>::ALIGNMENT, also ObjectPath's
STR_ALIGNMENT == 4

\* a padding that is never empty
PaddingNeverEmpty(n, align) == align - (n % align)

\* utils::padding_for_n_bytes: the bytes to add to n to reach a multiple of
\* align
PaddingForNBytes(n, align) == (align - (n % align)) % align

Zeros(n) == [i \in 1..n |-> 0]

\* `len as u32` followed by to_ne_bytes, on a little-endian machine; the
\* fourth byte drops what does not fit 32 bits
ToNeBytes(n) ==
    <<n % 256, (n \div 256) % 256, (n \div 65536) % 256, (n \div 16777216) % 256>>

\* byteorder::NativeEndian::read_u32 on the first four bytes
ReadU32(b) == b[1] + 256 * b[2] + 65536 * b[3] + 16777216 * b[4]

\* `len as u8`
AsU8(n) == n % 256

\* str::from_utf8 accepts the bytes; the strings of the model are ASCII
FromUtf8Ok(b) == \A i \in 1..Len(b) : b[i] < 128

CodecOk(b) == [ok |-> TRUE, err |-> "None", bytes |-> b]
CodecErr(e) == [ok |-> FALSE, err |-> e, bytes |-> <<>>]

\* &bytes[from..to] with Rust's indices; out of range is a panic
Slice(b, from, to) ==
    IF from <= to /\ to <= Len(b) THEN CodecOk(SubSeq(b, from + 1, to)) ELSE CodecErr("Panic")

\* <&str as VariantType>::encode
StrEncode(v, n_bytes_before) ==
    Zeros(PaddingForNBytes(n_bytes_before, STR_ALIGNMENT))
        \o ToNeBytes(Len(v)) \o v \o <<0>>

\* <&str as VariantType>::extract_slice, called with the signature "s"
StrExtractSlice(b) ==
    IF Len(b) < 4 THEN CodecErr("InsufficientData")
    ELSE LET last_index == ReadU32(b) + 5 IN
         IF Len(b) < last_index THEN CodecErr("InsufficientData")
         ELSE Slice(b, 0, last_index)

\* a decode that takes the NUL for part of the string
StrDecodeWithNul(b) == Slice(b, 4, Len(b))

\* <&str as VariantType>::decode, called with the signature "s"
StrDecode(b) ==
    IF Len(b) < 4 THEN CodecErr("InsufficientData")
    ELSE LET r == Slice(b, 4, Len(b) - 1) IN
         IF r.ok /\ ~FromUtf8Ok(r.bytes) THEN CodecErr("InvalidUtf8") ELSE r

\* SimpleVariantType::extract_slice_simple for &str: extract_slice with the
\* type's own signature
ExtractSliceSimple(b) == StrExtractSlice(b)

\* <ObjectPath as VariantType>::encode, extract_slice and decode
ObjectPathEncode(v, n_bytes_before) == StrEncode(v, n_bytes_before)
ObjectPathExtractSlice(b) == ExtractSliceSimple(b)
ObjectPathDecode(b) == StrDecode(b)

\* <Signature as VariantType>::encode: no padding, one length byte
SignatureEncode(v, n_bytes_before) == <<AsU8(Len(v))>> \o v \o <<0>>

\* <Signature as VariantType>::extract_slice
SignatureExtractSlice(b) ==
    IF Len(b) < 1 THEN CodecErr("InsufficientData")
    ELSE LET last_index == b[1] + 2 IN
         IF Len(b) < last_index THEN CodecErr("InsufficientData")
         ELSE Slice(b, 0, last_index)

\* <Signature as VariantType>::decode
SignatureDecode(b) ==
    IF Len(b) < 1 THEN CodecErr("InsufficientData")
    ELSE LET r == Slice(b, 1, Len(b) - 1) IN
         IF r.ok /\ ~FromUtf8Ok(r.bytes) THEN CodecErr("InvalidUtf8") ELSE r

\* the three types by their signature character
Encode(k, v, n) ==
    CASE k = "s" -> StrEncode(v, n)
      [] k = "o" -> ObjectPathEncode(v, n)
      [] OTHER -> SignatureEncode(v, n)

ExtractSlice(k, b) ==
    CASE k = "s" -> StrExtractSlice(b)
      [] k = "o" -> ObjectPathExtractSlice(b)
      [] OTHER -> SignatureExtractSlice(b)

Decode(k, b) ==
    CASE k = "s" -> StrDecode(b)
      [] k = "o" -> ObjectPathDecode(b)
      [] OTHER -> SignatureDecode(b)

\* the padding a reader skips before a value of the type at offset n
LeadingPadding(k, n) == IF k = "g" THEN 0 ELSE PaddingForNBytes(n, STR_ALIGNMENT)

\* the values that go through the codec: every string over a small alphabet
\* (the NUL among it), "hello", "a{sv}", and two long runs of one letter
Alphabet == {0, 97}

RECURSIVE StringsUpTo(_)
StringsUpTo(n) ==
    IF n = 0 THEN {<<>>}
    ELSE LET shorter == StringsUpTo(n - 1) IN
         shorter \cup {Append(v, c) : v \in {w \in shorter : Len(w) = n - 1}, c \in Alphabet}

Values ==
    StringsUpTo(MaxStrLen)
        \cup {<<104, 101, 108, 108, 111>>, <<97, 123, 115, 118, 125>>}
        \cup {[i \in 1..n |-> 121] : n \in {LongLen - 1, LongLen}}

Tails == StringsUpTo(MaxTail)

\* inputs as they may come off a socket: every byte string up to a length,
\* over a zero byte and a byte that reads as the length 2
RawAlphabet == {0, 2}

RECURSIVE BytesUpTo(_)
BytesUpTo(n) ==
    IF n = 0 THEN {<<>>}
    ELSE LET shorter == BytesUpTo(n - 1) IN
         shorter \cup {Append(v, c) : v \in {w \in shorter : Len(w) = n - 1}, c \in RawAlphabet}

RawInputs == BytesUpTo(MaxRawLen)

\* ------------------------------------------------------- serial counter

\* ConnectionCommon::next_serial: the value returned ...
NextSerialValue(s) == s

\* a counter that does not move
NextSerialStateStuck(s) == s

\* ... and the counter after the call: wraps to 1, 0 is reserved.
NextSerialState(s) == IF s = U32_MAX THEN 1 ELSE s + 1

\* a next_serial that hands out the counter after the increment
NextSerialIncremented(s) == NextSerialValue(s) + 1

\* Connection::next_serial
NextSerial(s) == NextSerialValue(s)

\* an assign_serial_num that leaves the serial the message was built with
AssignSerialNumKept(m, s) == [m EXCEPT !.serial = 1]

\* Connection::assign_serial_num: takes the next serial and writes it into
\* the primary header of the message.
AssignSerialNum(m, s) == [m EXCEPT !.serial = NextSerial(s)]

\* ------------------------------------------------------- unique name

Names == 1..MaxNames

\* the member "Hello" of org.freedesktop.DBus at /org/freedesktop/DBus, told
\* apart from the members "Test<t>"
Hello == Cardinality(Tasks) + 1

\* a cell that takes every name it is given
SetOnceOverwrite(cell, n) == [ok |-> TRUE, cell |-> n]

\* ConnectionCommon::set_unique_name on the single-assignment cell: fails
\* when a name is stored already.
SetOnce(cell, n) ==
    IF cell = NoName THEN [ok |-> TRUE, cell |-> n] ELSE [ok |-> FALSE, cell |-> cell]

\* a bootstrap that stores a name of its own making
HelloBodyFixed(m) == 1

\* `let name: String = ... .body()?`: the reply's body as one string
HelloBody(m) == m.body

\* ------------------------------------------------------------ the sink

\* a start_send without the capability check
StartSendUnchecked(m, cap) == FALSE

\* <&Connection as Sink>::start_send, the check before enqueueing
StartSendRefused(m, cap) == m.fds /\ ~cap

\* an enqueue_message that puts the message in front of the buffer
EnqueueBytesFront(out, m) == ToBytes(m) \o out

\* RawConnection::enqueue_message
EnqueueBytes(out, m) == out \o ToBytes(m)
EnqueueFds(fds, m) == IF m.fds THEN Append(fds, m.member) ELSE fds

\* RawConnection::try_flush writing the first k chunks of the buffer: the
\* fds of a message go with its first chunk.
FlushedFds(out, k) == {out[i].m.member : i \in {j \in 1..k : out[j].i = 1}}
RemainingFds(fds, out, k) == SelectSeq(fds, LAMBDA x : x \notin FlushedFds(out, k))

\* try_flush reports Ok(()) only when nothing is left to write
TryFlushOk(out) == out = <<>>

\* a poll_flush that reports Ready(Ok) where it should wait for the socket
PollFlushReadyEarly(out) == TRUE

\* <&Connection as Sink>::poll_flush is Ready(Ok) when try_flush is Ok; on
\* WouldBlock it waits for the socket to become writable.
PollFlushReady(out) == TryFlushOk(out)

\* --------------------------------------------------------- the stream

\* RawConnection::try_receive_message on the inbound side of the socket
TryReceiveMessage(sock, cl) ==
    IF sock # <<>>
    THEN [kind |-> IF Head(sock).type = "Malformed" THEN "Err" ELSE "Ok",
          msg |-> Head(sock), sock |-> Tail(sock)]
    ELSE IF cl THEN [kind |-> "BrokenPipe", msg |-> NoMsg, sock |-> sock]
    ELSE [kind |-> "WouldBlock", msg |-> NoMsg, sock |-> sock]

\* Vec::pop on the in-queue: the last element
QueuePopMsg(q) == q[Len(q)]
QueuePopRest(q) == SubSeq(q, 1, Len(q) - 1)

\* a poll_next that keeps waiting for the socket after the peer closed it
PollNextNoEnd(q, sock, cl) ==
    IF q # <<>>
    THEN [kind |-> "Some", msg |-> QueuePopMsg(q), queue |-> QueuePopRest(q),
          sock |-> sock, src |-> "queue"]
    ELSE LET r == TryReceiveMessage(sock, cl) IN
         IF r.kind = "Ok"
         THEN [kind |-> "Some", msg |-> r.msg, queue |-> q, sock |-> r.sock,
               src |-> "socket"]
         ELSE [kind |-> "Pending", msg |-> NoMsg, queue |-> q, sock |-> sock,
               src |-> "socket"]

\* a poll_next that tries the socket first and the in-queue only when the
\* socket has nothing
PollNextSocketFirst(q, sock, cl) ==
    LET r == TryReceiveMessage(sock, cl) IN
    CASE r.kind = "Ok" ->
           [kind |-> "Some", msg |-> r.msg, queue |-> q, sock |-> r.sock,
            src |-> "socket"]
      [] r.kind = "Err" ->
           [kind |-> "Err", msg |-> r.msg, queue |-> q, sock |-> r.sock,
            src |-> "error"]
      [] r.kind = "WouldBlock" /\ q # <<>> ->
           [kind |-> "Some", msg |-> QueuePopMsg(q), queue |-> QueuePopRest(q),
            sock |-> sock, src |-> "queue"]
      [] r.kind = "WouldBlock" /\ q = <<>> ->
           [kind |-> "Pending", msg |-> NoMsg, queue |-> q, sock |-> sock,
            src |-> "socket"]
      [] OTHER ->
           [kind |-> "None", msg |-> NoMsg, queue |-> q, sock |-> sock,
            src |-> "socket"]

\* <&Connection as Stream>::poll_next: the in-queue first, then the socket.
PollNext(q, sock, cl) ==
    IF q # <<>>
    THEN [kind |-> "Some", msg |-> QueuePopMsg(q), queue |-> QueuePopRest(q),
          sock |-> sock, src |-> "queue"]
    ELSE LET r == TryReceiveMessage(sock, cl) IN
         CASE r.kind = "Ok" ->
                [kind |-> "Some", msg |-> r.msg, queue |-> q, sock |-> r.sock,
                 src |-> "socket"]
           [] r.kind = "WouldBlock" ->
                [kind |-> "Pending", msg |-> NoMsg, queue |-> q, sock |-> sock,
                 src |-> "socket"]
           [] r.kind = "Err" ->
                [kind |-> "Err", msg |-> r.msg, queue |-> q, sock |-> r.sock,
                 src |-> "error"]
           [] OTHER ->
                [kind |-> "None", msg |-> NoMsg, queue |-> q, sock |-> sock,
                 src |-> "socket"]

\* ---------------------------------------------------------- call_method

\* a correlator that takes any reply for its own
IsMatchAnyReply(m, s) == m.reply_serial # 0

\* h.reply_serial()? != Some(serial), negated
IsMatch(m, s) == m.reply_serial = s

\* a retention test that lets one message more through
RetainsUpTo(q, tmp, max) == Len(q) + Len(tmp) <= max

\* queue.len() + tmp_queue.len() < self.max_queued()
Retains(q, tmp, max) == Len(q) + Len(tmp) < max

\* a call_method that hands an Error reply back as if it were the return
ReplyOutcomeErrorAsOk(m, n) ==
    IF m.type \in {"Error", "MethodReturn"}
    THEN [kind |-> "Ok", msg |-> m, at |-> n] ELSE NoResult

\* what call_method returns for the matching message; "None" keeps looping
ReplyOutcome(m, n) ==
    CASE m.type = "Error" -> [kind |-> "MethodError", msg |-> m, at |-> n]
      [] m.type = "MethodReturn" -> [kind |-> "Ok", msg |-> m, at |-> n]
      [] OTHER -> NoResult

\* -------------------------------------------------------------- Init

\* ConnectionCommon::new_authenticated, but for the outcome of the handshake
InitCommon ==
    /\ serial = 1
    /\ max_queued = DEFAULT_MAX_QUEUED
    /\ in_queue = <<>>
    /\ outbound = <<>>
    /\ out_fds = <<>>
    /\ wire = <<>>
    /\ sock_in = <<>>
    /\ closed = FALSE
    /\ pc = [t \in Tasks |-> "idle"]
    /\ msg = [t \in Tasks |-> NoMsg]
    /\ tmp_queue = [t \in Tasks |-> <<>>]
    /\ cur = [t \in Tasks |-> NoMsg]
    /\ result = [t \in Tasks |-> NoResult]
    /\ answered = {}
    /\ nsignals = 0
    /\ delivered = <<>>
    /\ stream_ended = FALSE
    /\ dropped = {}
    /\ issued = <<>>
    /\ unique_name = NoName
    /\ name_result = "None"
    /\ nbad = 0
    /\ raw_lock = NoTask
    /\ queue_lock = NoTask
    /\ raw_readers = {}
    /\ shut = FALSE
    /\ lost = [t \in Tasks |-> {}]

\* the handshake is over and went well: this end was the client
Authenticated == hs = "Ready" /\ role = "client"

\* new_client(stream, false) / new_server: the user gets the connection as
\* new_authenticated made it.
PeerToPeer == bus_connection = FALSE /\ owner = "user" /\ Authenticated

\* no value is going through the codec
NoCodec ==
    /\ cpc = "none"
    /\ ckind = "s"
    /\ cval = <<>>
    /\ coff = 0
    /\ ctail = <<>>
    /\ cbytes = <<>>
    /\ cslice = NoBytes
    /\ cout = NoBytes

\* A value of one of the three string types is about to go through the
\* codec, at some offset of its message and with or without bytes behind it.
CodecInit ==
    /\ InitCommon
    /\ cap_unix_fd = TRUE
    /\ PeerToPeer
    /\ cpc = "input"
    /\ ckind \in {"s", "o", "g"}
    /\ cval \in Values
    /\ coff \in 0..MaxOffset
    /\ ctail \in Tails
    /\ cbytes = <<>>
    /\ cslice = NoBytes
    /\ cout = NoBytes

\* Bytes of any length are about to be handed to extract_slice and decode
\* of one of the three string types.
RawInit ==
    /\ InitCommon
    /\ cap_unix_fd = TRUE
    /\ PeerToPeer
    /\ cpc = "raw"
    /\ ckind \in {"s", "o", "g"}
    /\ cval = <<>>
    /\ coff = 0
    /\ ctail = <<>>
    /\ cbytes \in RawInputs
    /\ cslice = NoBytes
    /\ cout = NoBytes

\* A connection over a Unix socket pair whose handshake agreed on fd-passing.
Init == InitCommon /\ cap_unix_fd = TRUE /\ PeerToPeer /\ NoCodec

\* Either outcome of NEGOTIATE_UNIX_FD.
SinkInit == InitCommon /\ cap_unix_fd \in BOOLEAN /\ PeerToPeer /\ NoCodec

\* new_client with either value of bus_connection: new_authenticated_bus
\* still has the connection to itself when it is a bus connection.
BusInit ==
    /\ InitCommon
    /\ cap_unix_fd = TRUE
    /\ bus_connection \in BOOLEAN
    /\ owner = IF bus_connection THEN "constructor" ELSE "user"
    /\ Authenticated
    /\ NoCodec

\* new_client / new_server are called on a stream: nothing was exchanged yet.
\* Only a client connection can be a bus connection.
ConnectInit ==
    /\ InitCommon
    /\ cap_unix_fd = FALSE
    /\ role \in {"client", "server"}
    /\ bus_connection \in (IF role = "client" THEN BOOLEAN ELSE {FALSE})
    /\ owner = "handshake"
    /\ hs = IF role = "client" THEN "Start" ELSE "WaitingNul"
    /\ NoCodec

\* The connection is untouched: nothing was sent or received on it.
Fresh ==
    /\ \A t \in Tasks : pc[t] = "idle"
    /\ issued = <<>>
    /\ delivered = <<>>
    /\ ~stream_ended

\* ------------------------------------------------------------ actions

\* Connection::set_max_queued, the builder step: it takes the connection by
\* value, before any task borrows it.
SetMaxQueued(n) ==
    /\ Fresh
    /\ max_queued = DEFAULT_MAX_QUEUED
    /\ max_queued' = n
    /\ UNCHANGED <<serial, cap_unix_fd, in_queue, raw_vars, task_vars, peer_vars,
                   hist_vars>>
    /\ UNCHANGED ext_vars

\* call_method up to the serial: Message::method, then send_message's
\* assign_serial_num.
CallMethod(t) ==
    /\ pc[t] = "idle"
    /\ Len(issued) < Cardinality(Tasks)
    /\ msg' = [msg EXCEPT ![t] = AssignSerialNum(MessageMethod(t, Len(issued) + 1), serial)]
    /\ serial' = NextSerialState(serial)
    /\ issued' = Append(issued, <<t, NextSerial(serial)>>)
    /\ pc' = [pc EXCEPT ![t] = "start_send"]
    /\ UNCHANGED <<max_queued, cap_unix_fd, in_queue, raw_vars, tmp_queue, cur,
                   result, peer_vars, delivered, stream_ended, dropped>>
    /\ UNCHANGED ext_vars

\* emit_signal up to the serial: Message::signal, then send_message's
\* assign_serial_num.
EmitSignal(t) ==
    /\ pc[t] = "idle"
    /\ Len(issued) < MaxSends
    /\ \E f \in BOOLEAN :
          msg' = [msg EXCEPT ![t] =
                     AssignSerialNum(MessageSignal(t, f, Len(issued) + 1), serial)]
    /\ serial' = NextSerialState(serial)
    /\ issued' = Append(issued, <<t, NextSerial(serial)>>)
    /\ pc' = [pc EXCEPT ![t] = "sig_start_send"]
    /\ result' = [result EXCEPT ![t] = NoResult]
    /\ UNCHANGED <<max_queued, cap_unix_fd, in_queue, raw_vars, tmp_queue, cur,
                   peer_vars, delivered, stream_ended, dropped>>
    /\ UNCHANGED ext_vars

\* A task that sends through the Sink itself calls assign_serial_num on its
\* message first ...
AssignSerial(t) ==
    /\ pc[t] = "idle"
    /\ Len(issued) < MaxIssued
    /\ msg' = [msg EXCEPT ![t] =
                  AssignSerialNum(MessageSignal(t, FALSE, Len(issued) + 1), serial)]
    /\ serial' = NextSerialState(serial)
    /\ issued' = Append(issued, <<t, NextSerial(serial)>>)
    /\ pc' = [pc EXCEPT ![t] = "assigned"]
    /\ UNCHANGED <<max_queued, cap_unix_fd, in_queue, raw_vars, tmp_queue, cur,
                   result, peer_vars, delivered, stream_ended, dropped>>
    /\ UNCHANGED ext_vars

\* ... and is done with the message some time later.
ReleaseMessage(t) ==
    /\ pc[t] = "assigned"
    /\ pc' = [pc EXCEPT ![t] = "idle"]
    /\ UNCHANGED <<conn_vars, raw_vars, msg, tmp_queue, cur, result, peer_vars,
                   hist_vars>>
    /\ UNCHANGED ext_vars

\* where send_message's caller goes on: call_method to its flush and then to
\* its receive loop, emit_signal to its flush and then back to its caller
AfterStartSend(p) == IF p = "start_send" THEN "flush" ELSE "sig_flush"
AfterFlush(p) == IF p = "flush" THEN "recv" ELSE "idle"
AfterError(p) == IF p = "start_send" THEN "done" ELSE "idle"

\* SinkExt::send, first half: poll_ready and start_send.
StartSend(t) ==
    /\ pc[t] \in {"start_send", "sig_start_send"}
    /\ IF StartSendRefused(msg[t], cap_unix_fd)
       THEN /\ result' = [result EXCEPT ![t] = [kind |-> "Unsupported", msg |-> msg[t], at |-> Len(issued)]]
            /\ pc' = [pc EXCEPT ![t] = AfterError(@)]
            /\ UNCHANGED <<outbound, out_fds>>
       ELSE /\ outbound' = EnqueueBytes(outbound, msg[t])
            /\ out_fds' = EnqueueFds(out_fds, msg[t])
            /\ pc' = [pc EXCEPT ![t] = AfterStartSend(@)]
            /\ UNCHANGED result
    /\ UNCHANGED <<conn_vars, wire, sock_in, closed, msg, tmp_queue, cur, peer_vars,
                   hist_vars>>
    /\ UNCHANGED ext_vars

\* SinkExt::send, second half: one poll_flush.  The socket takes k of the
\* buffered chunks; the poll is Ready(Ok) when none is left and Pending
\* otherwise.  On Ready send_message returns the serial: emit_signal is
\* done, call_method goes on to its loop with an empty tmp_queue.
PollFlush(t) ==
    /\ pc[t] \in {"flush", "sig_flush"}
    /\ \E k \in 0..Len(outbound) :
          /\ k = 0 => outbound = <<>>
          /\ wire' = wire \o SubSeq(outbound, 1, k)
          /\ outbound' = SubSeq(outbound, k + 1, Len(outbound))
          /\ out_fds' = RemainingFds(out_fds, outbound, k)
          /\ IF PollFlushReady(outbound')
             THEN /\ pc' = [pc EXCEPT ![t] = AfterFlush(@)]
                  /\ result' = [result EXCEPT ![t] =
                        IF pc[t] = "sig_flush" THEN [kind |-> "Sent", msg |-> msg[t], at |-> Len(issued)]
                        ELSE @]
             ELSE UNCHANGED <<pc, result>>
    /\ tmp_queue' = [tmp_queue EXCEPT ![t] = <<>>]
    /\ UNCHANGED <<conn_vars, sock_in, closed, msg, cur, peer_vars, hist_vars>>
    /\ UNCHANGED ext_vars

\* call_method's `try_next().await?`: one poll_next that is not Pending.
\* End-of-stream leaves the loop: call_method fails Io(BrokenPipe) and its
\* tmp_queue is gone with it.  An error item leaves call_method through `?`,
\* its tmp_queue gone as well.
TryNext(t) ==
    /\ pc[t] = "recv"
    /\ LET r == PollNext(in_queue, sock_in, closed) IN
       /\ r.kind # "Pending"
       /\ in_queue' = r.queue
       /\ sock_in' = r.sock
       /\ IF r.kind = "Some"
          THEN /\ cur' = [cur EXCEPT ![t] = r.msg]
               /\ pc' = [pc EXCEPT ![t] = "got"]
               /\ UNCHANGED <<result, tmp_queue, dropped, lost>>
          ELSE IF r.kind = "Err"
          THEN /\ result' = [result EXCEPT ![t] = [kind |-> "CodecError", msg |-> r.msg, at |-> Len(issued)]]
               /\ pc' = [pc EXCEPT ![t] = "done"]
               /\ lost' = [lost EXCEPT ![t] = @ \cup {m.seq : m \in Range(tmp_queue[t])}]
               /\ tmp_queue' = [tmp_queue EXCEPT ![t] = <<>>]
               /\ UNCHANGED <<cur, dropped>>
          ELSE /\ result' = [result EXCEPT ![t] = [kind |-> "BrokenPipe", msg |-> NoMsg, at |-> Len(issued)]]
               /\ pc' = [pc EXCEPT ![t] = "done"]
               /\ dropped' = dropped \cup {m.seq : m \in Range(tmp_queue[t])}
               /\ tmp_queue' = [tmp_queue EXCEPT ![t] = <<>>]
               /\ UNCHANGED <<cur, lost>>
    /\ UNCHANGED <<serial, max_queued, cap_unix_fd, outbound, out_fds, wire, closed,
                   msg, peer_vars, delivered, stream_ended, issued>>
    /\ UNCHANGED <<name_vars, nbad, more_vars>>

\* The body of call_method's loop for the message try_next returned.
HandleMessage(t) ==
    /\ pc[t] = "got"
    /\ LET m == cur[t] IN
       IF ~IsMatch(m, msg[t].serial)
       THEN /\ IF Retains(in_queue, tmp_queue[t], max_queued)
               THEN /\ tmp_queue' = [tmp_queue EXCEPT ![t] = Append(@, m)]
                    /\ UNCHANGED dropped
               ELSE /\ dropped' = dropped \cup {m.seq}
                    /\ UNCHANGED tmp_queue
            /\ pc' = [pc EXCEPT ![t] = "recv"]
            /\ UNCHANGED <<in_queue, result>>
       ELSE /\ in_queue' = in_queue \o tmp_queue[t]
            /\ tmp_queue' = [tmp_queue EXCEPT ![t] = <<>>]
            /\ result' = [result EXCEPT ![t] = ReplyOutcome(m, Len(issued))]
            /\ pc' = [pc EXCEPT ![t] =
                         IF ReplyOutcome(m, Len(issued)).kind = "None"
                         THEN "recv" ELSE "done"]
            /\ UNCHANGED dropped
    /\ cur' = [cur EXCEPT ![t] = NoMsg]
    /\ UNCHANGED <<serial, max_queued, cap_unix_fd, raw_vars, msg, peer_vars,
                   delivered, stream_ended, issued>>
    /\ UNCHANGED ext_vars

\* The stream consumer: one poll_next of the receive stream that is not
\* Pending.  An error item is an item like any other, marked by its src.
StreamNext ==
    /\ ~stream_ended
    /\ LET r == PollNext(in_queue, sock_in, closed) IN
       /\ r.kind # "Pending"
       /\ in_queue' = r.queue
       /\ sock_in' = r.sock
       /\ IF r.kind \in {"Some", "Err"}
          THEN /\ delivered' = Append(delivered, [m |-> r.msg, src |-> r.src])
               /\ UNCHANGED stream_ended
          ELSE /\ stream_ended' = TRUE
               /\ UNCHANGED delivered
    /\ UNCHANGED <<serial, max_queued, cap_unix_fd, outbound, out_fds, wire, closed,
                   task_vars, peer_vars, dropped, issued>>
    /\ UNCHANGED ext_vars

\* The stream consumer that reads while no call_method is in progress, as
\* the owner of the connection does.
NoCallInProgress == \A t \in Tasks : pc[t] \in {"idle", "done", "cancelled"}

StreamDrain == NoCallInProgress /\ StreamNext

\* ------------------------------------------------------------ the peer

\* the calls the peer has received whole
CallsReceived == {c.m : c \in {x \in Range(wire) : x.i = MsgChunks}}

PeerSeq == Cardinality(answered) + nsignals + nbad + 1

\* Connection::reply / reply_error on the peer's side
PeerReply(c, ty) ==
    /\ ~closed
    /\ c \in CallsReceived
    /\ c.member \notin answered
    /\ sock_in' = Append(sock_in,
           [type |-> ty, serial |-> 0, reply_serial |-> c.serial,
            member |-> c.member, fds |-> FALSE, seq |-> PeerSeq, body |-> NoName])
    /\ answered' = answered \cup {c.member}
    /\ UNCHANGED <<conn_vars, outbound, out_fds, wire, closed, task_vars, nsignals,
                   hist_vars>>
    /\ UNCHANGED ext_vars

\* Connection::emit_signal on the peer's side
PeerSignal ==
    /\ ~closed
    /\ nsignals < MaxSignals
    /\ sock_in' = Append(sock_in,
           [type |-> "Signal", serial |-> 0, reply_serial |-> 0, member |-> 0,
            fds |-> FALSE, seq |-> PeerSeq, body |-> NoName])
    /\ nsignals' = nsignals + 1
    /\ UNCHANGED <<conn_vars, outbound, out_fds, wire, closed, task_vars, answered,
                   hist_vars>>
    /\ UNCHANGED ext_vars

\* the peer writes bytes that do not parse as a message
PeerMalformed ==
    /\ ~closed
    /\ nbad < MaxMalformed
    /\ sock_in' = Append(sock_in, [NoMsg EXCEPT !.type = "Malformed", !.seq = PeerSeq])
    /\ nbad' = nbad + 1
    /\ UNCHANGED <<conn_vars, outbound, out_fds, wire, closed, task_vars, peer_vars,
                   hist_vars, name_vars, lost, more_vars>>

PeerClose ==
    /\ ~closed
    /\ closed' = TRUE
    /\ UNCHANGED <<conn_vars, outbound, out_fds, wire, sock_in, task_vars, peer_vars,
                   hist_vars>>
    /\ UNCHANGED ext_vars

\* the bus answers Hello with the unique name it assigned
PeerHello(c, n) ==
    /\ ~closed
    /\ c \in CallsReceived
    /\ c.member = Hello
    /\ c.member \notin answered
    /\ sock_in' = Append(sock_in,
           [type |-> "MethodReturn", serial |-> 0, reply_serial |-> c.serial,
            member |-> c.member, fds |-> FALSE, seq |-> PeerSeq, body |-> n])
    /\ answered' = answered \cup {c.member}
    /\ UNCHANGED <<conn_vars, outbound, out_fds, wire, closed, task_vars, nsignals,
                   hist_vars, ext_vars>>

\* --------------------------------------------------------- handshake

\* what arrives, or is found out, during the handshake: the lines of the
\* protocol, the leading NUL, the outcome of the uid check, anything else
AuthEvents ==
    {"send_auth", "OK", "REJECTED", "AGREE_UNIX_FD", "ERROR", "NUL", "uid_match",
     "uid_mismatch", "NEGOTIATE_UNIX_FD", "BEGIN", "unexpected"}

\* The authentication state machine: the state after event e in state st.
\* Anything a state does not expect is a terminal failure.
AuthStateAfter(r, st, e) ==
    CASE r = "client" /\ st = "Start" /\ e = "send_auth" -> "WaitingOk"
      [] r = "client" /\ st = "WaitingOk" /\ e = "OK" -> "NegotiatingFds"
      [] r = "client" /\ st = "NegotiatingFds" /\ e \in {"AGREE_UNIX_FD", "ERROR"} -> "Ready"
      [] r = "server" /\ st = "WaitingNul" /\ e = "NUL" -> "WaitingAuth"
      [] r = "server" /\ st = "WaitingAuth" /\ e = "uid_match" -> "WaitingFdNegotiation"
      [] r = "server" /\ st = "WaitingFdNegotiation" /\ e = "NEGOTIATE_UNIX_FD" -> "WaitingBegin"
      [] r = "server" /\ st \in {"WaitingFdNegotiation", "WaitingBegin"} /\ e = "BEGIN" -> "Ready"
      [] OTHER -> "Failed"

\* the cap_unix_fd the state machine yields
AuthCapAfter(cap, e) == cap \/ e \in {"AGREE_UNIX_FD", "NEGOTIATE_UNIX_FD"}

\* a constructor that goes on with whatever the handshake left
ConstructorGoesOnAlways(st) == TRUE

\* `Authenticated::client(..).await?` / `Authenticated::server(..).await?`:
\* the constructor goes on only with an authenticated socket.
ConstructorGoesOn(st) == st = "Ready"

\* One step of Authenticated::client / Authenticated::server.
AuthStep(e) ==
    /\ owner = "handshake"
    /\ hs \notin {"Ready", "Failed"}
    /\ hs' = AuthStateAfter(role, hs, e)
    /\ cap_unix_fd' = AuthCapAfter(cap_unix_fd, e)
    /\ UNCHANGED <<serial, max_queued, in_queue, raw_vars, task_vars, peer_vars,
                   hist_vars, unique_name, bus_connection, owner, name_result, role,
                   fault_vars, more_vars>>

\* new_server: getsockopt(PeerCredentials) fails before the handshake
\* begins, and new_server returns Error::Handshake.
CredentialsFail ==
    /\ owner = "handshake"
    /\ role = "server"
    /\ hs = "WaitingNul"
    /\ owner' = "failed"
    /\ UNCHANGED <<conn_vars, raw_vars, task_vars, peer_vars, hist_vars, unique_name,
                   bus_connection, name_result, hs, role, fault_vars, more_vars>>

\* new_client / new_server once the handshake is over: an error, or
\* new_authenticated, and for a bus connection new_authenticated_bus.
ConstructorReturn ==
    /\ owner = "handshake"
    /\ hs \in {"Ready", "Failed"}
    /\ owner' = IF ConstructorGoesOn(hs)
                THEN (IF bus_connection THEN "constructor" ELSE "user")
                ELSE "failed"
    /\ UNCHANGED <<conn_vars, raw_vars, task_vars, peer_vars, hist_vars, unique_name,
                   bus_connection, name_result, hs, role, fault_vars, more_vars>>

\* ------------------------------------------------------ bus bootstrap

\* new_authenticated_bus up to the serial of its call_method: the Hello call,
\* built while the unique name is unset.
HelloCall(t) ==
    /\ owner = "constructor"
    /\ Fresh
    /\ msg' = [msg EXCEPT ![t] = AssignSerialNum(MessageMethod(Hello, Len(issued) + 1), serial)]
    /\ serial' = NextSerialState(serial)
    /\ issued' = Append(issued, <<t, NextSerial(serial)>>)
    /\ pc' = [pc EXCEPT ![t] = "start_send"]
    /\ UNCHANGED <<max_queued, cap_unix_fd, in_queue, raw_vars, tmp_queue, cur,
                   result, peer_vars, delivered, stream_ended, dropped, ext_vars>>

\* new_authenticated_bus after its call_method returned: `?` on the call and
\* on body() drops the connection; otherwise set_unique_name stores the name
\* and the connection goes to the user (expect panics if the cell was set).
HelloReturn(t) ==
    /\ owner = "constructor"
    /\ pc[t] = "done"
    /\ IF result[t].kind = "Ok" /\ HelloBody(result[t].msg) # NoName
       THEN LET r == SetOnce(unique_name, HelloBody(result[t].msg)) IN
            /\ unique_name' = r.cell
            /\ name_result' = IF r.ok THEN "Ok" ELSE "Err"
            /\ owner' = IF r.ok THEN "user" ELSE "dropped"
       ELSE /\ owner' = "dropped"
            /\ UNCHANGED <<unique_name, name_result>>
    /\ UNCHANGED <<conn_vars, raw_vars, task_vars, peer_vars, hist_vars,
                   bus_connection, hs, role, fault_vars, more_vars>>

\* Connection::set_unique_name called by the user: it takes the connection
\* by value and hands it back only on success.
SetUniqueName(n) ==
    /\ owner = "user"
    /\ NoCallInProgress
    /\ LET r == SetOnce(unique_name, n) IN
       /\ unique_name' = r.cell
       /\ name_result' = IF r.ok THEN "Ok" ELSE "Err"
       /\ owner' = IF r.ok THEN "user" ELSE "dropped"
    /\ UNCHANGED <<conn_vars, raw_vars, task_vars, peer_vars, hist_vars,
                   bus_connection, hs, role, fault_vars, more_vars>>

\* A pending call_method is dropped where it is suspended: in send_message's
\* flush or in try_next.  Its locals go with it, tmp_queue among them; what
\* it enqueued stays in the outbound buffer.
Cancel(t) ==
    /\ pc[t] \in {"flush", "recv"}
    /\ pc' = [pc EXCEPT ![t] = "cancelled"]
    /\ lost' = [lost EXCEPT ![t] = @ \cup {m.seq : m \in Range(tmp_queue[t])}]
    /\ tmp_queue' = [tmp_queue EXCEPT ![t] = <<>>]
    /\ UNCHANGED <<conn_vars, raw_vars, msg, cur, result, peer_vars, hist_vars,
                   name_vars, nbad, more_vars>>

\* ------------------------------------------------------ codec steps

\* the writer of a message encodes the value at its offset
EncodeValue ==
    /\ cpc = "input"
    /\ cbytes' = Encode(ckind, cval, coff)
    /\ cpc' = "encoded"
    /\ UNCHANGED <<conn_vars, raw_vars, task_vars, peer_vars, hist_vars, name_vars,
                   fault_vars, lock_vars, close_vars, ckind, cval, coff, ctail, cslice, cout>>

\* the reader skips the padding and frames the value in what follows
ExtractValue ==
    /\ cpc = "encoded"
    /\ LET pad == LeadingPadding(ckind, coff) IN
       cslice' = ExtractSlice(ckind, SubSeq(cbytes, pad + 1, Len(cbytes)) \o ctail)
    /\ cpc' = "sliced"
    /\ UNCHANGED <<conn_vars, raw_vars, task_vars, peer_vars, hist_vars, name_vars,
                   fault_vars, lock_vars, close_vars, ckind, cval, coff, ctail, cbytes, cout>>

\* the reader decodes the framed slice
DecodeValue ==
    /\ cpc = "sliced"
    /\ cout' = IF cslice.ok THEN Decode(ckind, cslice.bytes) ELSE cslice
    /\ cpc' = "decoded"
    /\ UNCHANGED <<conn_vars, raw_vars, task_vars, peer_vars, hist_vars, name_vars,
                   fault_vars, lock_vars, close_vars, ckind, cval, coff, ctail, cbytes, cslice>>

\* extract_slice on bytes as they came
ExtractRaw ==
    /\ cpc = "raw"
    /\ cslice' = ExtractSlice(ckind, cbytes)
    /\ cpc' = "raw_sliced"
    /\ UNCHANGED <<conn_vars, raw_vars, task_vars, peer_vars, hist_vars, name_vars,
                   fault_vars, lock_vars, close_vars, ckind, cval, coff, ctail, cbytes, cout>>

\* decode on the same bytes
DecodeRaw ==
    /\ cpc = "raw_sliced"
    /\ cout' = Decode(ckind, cbytes)
    /\ cpc' = "raw_decoded"
    /\ UNCHANGED <<conn_vars, raw_vars, task_vars, peer_vars, hist_vars, name_vars,
                   fault_vars, lock_vars, close_vars, ckind, cval, coff, ctail, cbytes, cslice>>

\* ------------------------------------------------- polls, lock by lock

\* a poll that returns Pending with its guard alive
KeptOnPending(holder, t) == holder

\* `return Poll::Pending`: the guards are locals of the poll and are dropped
\* when it returns.
ReleasedOnPending(holder, t) == IF holder = t THEN NoTask ELSE holder

\* where a task is inside a poll, and where it waits when the poll is Pending
MidPoll(t) ==
    pc[t] \in {"flush_locked", "sig_flush_locked", "recv_queue", "recv_raw_wait",
               "recv_raw"}

SuspendedPc(p) ==
    CASE p = "flush_locked" -> "flush"
      [] p = "sig_flush_locked" -> "sig_flush"
      [] OTHER -> "recv"

\* start_send: raw_conn_write() is taken and released within the call, and
\* not at all when the message is refused.
LockedStartSend(t) ==
    /\ StartSendRefused(msg[t], cap_unix_fd) \/ (raw_lock = NoTask /\ raw_readers = {})
    /\ StartSend(t)

\* poll_flush: `let mut raw_conn = self.0.raw_conn_write()`
FlushLock(t) ==
    /\ pc[t] \in {"flush", "sig_flush"}
    /\ raw_lock = NoTask
    /\ raw_readers = {}
    /\ raw_lock' = t
    /\ pc' = [pc EXCEPT ![t] = IF @ = "flush" THEN "flush_locked" ELSE "sig_flush_locked"]
    /\ UNCHANGED <<conn_vars, raw_vars, msg, tmp_queue, cur, result, peer_vars,
                   hist_vars, name_vars, fault_vars, queue_lock, codec_vars, close_vars>>

\* poll_flush under the lock: try_flush writes k chunks; Ready(Ok) when
\* nothing is left, else poll_writable and Pending.
FlushTry(t) ==
    /\ pc[t] \in {"flush_locked", "sig_flush_locked"}
    /\ \E k \in 0..Len(outbound) :
          /\ wire' = wire \o SubSeq(outbound, 1, k)
          /\ outbound' = SubSeq(outbound, k + 1, Len(outbound))
          /\ out_fds' = RemainingFds(out_fds, outbound, k)
          /\ IF PollFlushReady(outbound')
             THEN /\ pc' = [pc EXCEPT ![t] = AfterFlush(SuspendedPc(@))]
                  /\ result' = [result EXCEPT ![t] =
                        IF pc[t] = "sig_flush_locked"
                        THEN [kind |-> "Sent", msg |-> msg[t], at |-> Len(issued)]
                        ELSE @]
                  /\ raw_lock' = NoTask
             ELSE /\ pc' = [pc EXCEPT ![t] = SuspendedPc(@)]
                  /\ raw_lock' = ReleasedOnPending(raw_lock, t)
                  /\ UNCHANGED result
    /\ tmp_queue' = [tmp_queue EXCEPT ![t] = <<>>]
    /\ UNCHANGED <<conn_vars, sock_in, closed, msg, cur, peer_vars, hist_vars,
                   name_vars, fault_vars, queue_lock, codec_vars, close_vars>>

\* poll_next: `let mut queue = self.0.in_queue_lock()`
NextLockQueue(t) ==
    /\ pc[t] = "recv"
    /\ queue_lock = NoTask
    /\ queue_lock' = t
    /\ pc' = [pc EXCEPT ![t] = "recv_queue"]
    /\ UNCHANGED <<conn_vars, raw_vars, msg, tmp_queue, cur, result, peer_vars,
                   hist_vars, name_vars, fault_vars, raw_lock, codec_vars, close_vars>>

\* poll_next: queue.pop(); with a message the poll returns, without one it
\* goes on to the socket with the in-queue guard still alive.
NextPop(t) ==
    /\ pc[t] = "recv_queue"
    /\ IF in_queue # <<>>
       THEN /\ cur' = [cur EXCEPT ![t] = QueuePopMsg(in_queue)]
            /\ in_queue' = QueuePopRest(in_queue)
            /\ pc' = [pc EXCEPT ![t] = "got"]
            /\ queue_lock' = NoTask
       ELSE /\ pc' = [pc EXCEPT ![t] = "recv_raw_wait"]
            /\ UNCHANGED <<cur, in_queue, queue_lock>>
    /\ UNCHANGED <<serial, max_queued, cap_unix_fd, raw_vars, msg, tmp_queue, result,
                   peer_vars, hist_vars, name_vars, fault_vars, raw_lock, codec_vars, close_vars>>

\* poll_next: `let mut raw_conn = self.0.raw_conn_write()`
NextLockRaw(t) ==
    /\ pc[t] = "recv_raw_wait"
    /\ raw_lock = NoTask
    /\ raw_readers = {}
    /\ raw_lock' = t
    /\ pc' = [pc EXCEPT ![t] = "recv_raw"]
    /\ UNCHANGED <<conn_vars, raw_vars, msg, tmp_queue, cur, result, peer_vars,
                   hist_vars, name_vars, fault_vars, queue_lock, codec_vars, close_vars>>

\* poll_next under both locks: try_receive_message, and what call_method
\* does with an item that is not a message.
NextReceive(t) ==
    /\ pc[t] = "recv_raw"
    /\ LET r == TryReceiveMessage(sock_in, closed) IN
       /\ sock_in' = r.sock
       /\ CASE r.kind = "Ok" ->
                 /\ cur' = [cur EXCEPT ![t] = r.msg]
                 /\ pc' = [pc EXCEPT ![t] = "got"]
                 /\ raw_lock' = NoTask
                 /\ queue_lock' = NoTask
                 /\ UNCHANGED <<result, tmp_queue, dropped, lost>>
            [] r.kind = "WouldBlock" ->
                 /\ pc' = [pc EXCEPT ![t] = SuspendedPc(@)]
                 /\ raw_lock' = ReleasedOnPending(raw_lock, t)
                 /\ queue_lock' = ReleasedOnPending(queue_lock, t)
                 /\ UNCHANGED <<cur, result, tmp_queue, dropped, lost>>
            [] OTHER ->
                 /\ result' = [result EXCEPT ![t] =
                       [kind |-> IF r.kind = "Err" THEN "CodecError" ELSE "BrokenPipe",
                        msg |-> r.msg, at |-> Len(issued)]]
                 /\ pc' = [pc EXCEPT ![t] = "done"]
                 /\ raw_lock' = NoTask
                 /\ queue_lock' = NoTask
                 /\ IF r.kind = "Err"
                    THEN /\ lost' = [lost EXCEPT ![t] = @ \cup {m.seq : m \in Range(tmp_queue[t])}]
                         /\ UNCHANGED dropped
                    ELSE /\ dropped' = dropped \cup {m.seq : m \in Range(tmp_queue[t])}
                         /\ UNCHANGED lost
                 /\ tmp_queue' = [tmp_queue EXCEPT ![t] = <<>>]
                 /\ UNCHANGED cur
    /\ UNCHANGED <<serial, max_queued, cap_unix_fd, in_queue, outbound, out_fds, wire,
                   closed, msg, peer_vars, delivered, stream_ended, issued, name_vars,
                   nbad, codec_vars, close_vars>>

\* What raw_conn_write() can come to for task t.  The lock is exclusive for
\* writing: it is acquired when nobody holds it in any way; a task that
\* asks for it while holding a guard of its own can never get it, and is
\* left blocked for good or panics, as the lock's implementation has it;
\* behind another task's guard it waits for that task.
RawConnWrite(holder, readers, t) ==
    IF holder = NoTask /\ readers = {} THEN {"acquired"}
    ELSE IF holder = t \/ t \in readers THEN {"blocked", "panic"}
    ELSE {"wait"}

\* poll_close: `let raw_conn = self.0.raw_conn_read()`
CloseLock(t) ==
    /\ pc[t] \in {"idle", "close"}
    /\ ~shut
    /\ raw_lock = NoTask
    /\ raw_readers' = raw_readers \cup {t}
    /\ pc' = [pc EXCEPT ![t] = "close_locked"]
    /\ result' = [result EXCEPT ![t] = NoResult]
    /\ UNCHANGED <<conn_vars, raw_vars, msg, tmp_queue, cur, peer_vars, hist_vars,
                   name_vars, fault_vars, lock_vars, codec_vars, shut>>

\* poll_close with its read guard alive: `self.poll_flush(cx)`, which asks
\* for raw_conn_write() and flushes under it, and on Ready(Ok)
\* `(*raw_conn).close()`.  On Pending the guards are dropped and poll_close
\* is polled again later.
CloseFlush(t) ==
    /\ pc[t] = "close_locked"
    /\ \E o \in RawConnWrite(raw_lock, raw_readers, t) :
          CASE o = "acquired" ->
                 \E k \in 0..Len(outbound) :
                    /\ wire' = wire \o SubSeq(outbound, 1, k)
                    /\ outbound' = SubSeq(outbound, k + 1, Len(outbound))
                    /\ out_fds' = RemainingFds(out_fds, outbound, k)
                    /\ raw_readers' = raw_readers \ {t}
                    /\ IF PollFlushReady(outbound')
                       THEN /\ shut' = TRUE
                            /\ pc' = [pc EXCEPT ![t] = "closed"]
                            /\ result' = [result EXCEPT ![t] =
                                  [kind |-> "Closed", msg |-> NoMsg, at |-> Len(issued)]]
                       ELSE /\ pc' = [pc EXCEPT ![t] = "close"]
                            /\ UNCHANGED <<shut, result>>
            [] o = "panic" ->
                 /\ raw_readers' = raw_readers \ {t}
                 /\ pc' = [pc EXCEPT ![t] = "closed"]
                 /\ result' = [result EXCEPT ![t] =
                       [kind |-> "Panic", msg |-> NoMsg, at |-> Len(issued)]]
                 /\ UNCHANGED <<outbound, out_fds, wire, shut>>
            [] o = "blocked" ->
                 /\ pc' = [pc EXCEPT ![t] = "close_blocked"]
                 /\ UNCHANGED <<outbound, out_fds, wire, shut, raw_readers, result>>
            [] OTHER -> FALSE
    /\ UNCHANGED <<conn_vars, sock_in, closed, msg, tmp_queue, cur, peer_vars,
                   hist_vars, name_vars, fault_vars, lock_vars, codec_vars>>

\* call_method's loop body: in_queue_lock() is taken and released within it.
LockedHandle(t) == queue_lock = NoTask /\ HandleMessage(t)

\* a call_method of the user, who has the connection
UserCall(t) == owner = "user" /\ CallMethod(t)

\* ---------------------------------------------------- specification

\* the connection's tasks and the peer
CallsNext ==
    \/ \E n \in 0..MaxQueuedArg : SetMaxQueued(n)
    \/ \E t \in Tasks : CallMethod(t)
    \/ \E t \in Tasks : StartSend(t)
    \/ \E t \in Tasks : PollFlush(t)
    \/ \E t \in Tasks : TryNext(t)
    \/ \E t \in Tasks : HandleMessage(t)
    \/ \E c \in CallsReceived, ty \in {"MethodReturn", "Error"} : PeerReply(c, ty)
    \/ PeerSignal
    \/ PeerClose

\* Two tasks calling methods, the peer, and the owner reading the stream
\* between the calls.
Next == CallsNext \/ StreamDrain

Spec == Init /\ [][Next]_vars

\* The same with a stream consumer that reads at any time, also while calls
\* are in progress.
StreamSpecNext == CallsNext \/ StreamNext

StreamSpec == Init /\ [][StreamSpecNext]_vars

\* One step of a client task, and of any of them.
TaskStep(t) ==
    CallMethod(t) \/ StartSend(t) \/ PollFlush(t) \/ TryNext(t) \/ HandleMessage(t)

ClientStep == \E t \in Tasks : TaskStep(t)

\* A call that was begun is polled whenever it can go on: its task is woken
\* when the socket becomes readable or writable, or runs until it has to wait.
PollStep(t) == StartSend(t) \/ PollFlush(t) \/ TryNext(t) \/ HandleMessage(t)

FairSpec == Spec /\ \A t \in Tasks : WF_vars(PollStep(t))

\* Tasks that only send: emit_signal again and again, on a connection with
\* either outcome of the fd negotiation.
SinkNext ==
    \/ \E t \in Tasks : EmitSignal(t)
    \/ \E t \in Tasks : StartSend(t)
    \/ \E t \in Tasks : PollFlush(t)

SinkSpec == SinkInit /\ [][SinkNext]_vars

\* Tasks that take serials for messages of their own, across the wrap of the
\* counter.
SerialNext ==
    \/ \E t \in Tasks : AssignSerial(t)
    \/ \E t \in Tasks : ReleaseMessage(t)

SerialSpec == Init /\ [][SerialNext]_vars

\* Calls on a connection whose peer also writes a message that does not
\* parse, and whose callers may give up a pending call.
FaultNext ==
    \/ \E t \in Tasks : CallMethod(t)
    \/ \E t \in Tasks : StartSend(t)
    \/ \E t \in Tasks : PollFlush(t)
    \/ \E t \in Tasks : TryNext(t)
    \/ \E t \in Tasks : HandleMessage(t)
    \/ \E t \in Tasks : Cancel(t)
    \/ \E c \in CallsReceived, ty \in {"MethodReturn", "Error"} : PeerReply(c, ty)
    \/ PeerSignal
    \/ PeerMalformed
    \/ StreamDrain

FaultSpec == Init /\ [][FaultNext]_vars

\* Sends that fail after the serial was assigned, and calls that are given
\* up, on a connection with either outcome of the fd negotiation.
AbandonNext ==
    \/ \E t \in Tasks : EmitSignal(t)
    \/ \E t \in Tasks : CallMethod(t)
    \/ \E t \in Tasks : StartSend(t)
    \/ \E t \in Tasks : PollFlush(t)
    \/ \E t \in Tasks : Cancel(t)

AbandonSpec == SinkInit /\ [][AbandonNext]_vars

\* Calling tasks on one connection, each sending and then receiving, with
\* every poll taken apart into its lock acquisitions.
LockNext ==
    \/ \E t \in Tasks : CallMethod(t)
    \/ \E t \in Tasks : LockedStartSend(t)
    \/ \E t \in Tasks : FlushLock(t)
    \/ \E t \in Tasks : FlushTry(t)
    \/ \E t \in Tasks : NextLockQueue(t)
    \/ \E t \in Tasks : NextPop(t)
    \/ \E t \in Tasks : NextLockRaw(t)
    \/ \E t \in Tasks : NextReceive(t)
    \/ \E t \in Tasks : LockedHandle(t)
    \/ \E c \in CallsReceived : PeerReply(c, "MethodReturn")
    \/ PeerSignal

LockSpec == Init /\ [][LockNext]_vars

\* Tasks that send signals through the sink and close it, every poll taken
\* apart into its lock acquisitions.
CloseNext ==
    \/ \E t \in Tasks : EmitSignal(t)
    \/ \E t \in Tasks : LockedStartSend(t)
    \/ \E t \in Tasks : FlushLock(t)
    \/ \E t \in Tasks : FlushTry(t)
    \/ \E t \in Tasks : CloseLock(t)
    \/ \E t \in Tasks : CloseFlush(t)

CloseSpec == Init /\ [][CloseNext]_vars

\* A value through encode, extract_slice and decode.
CodecNext == EncodeValue \/ ExtractValue \/ DecodeValue

CodecSpec == CodecInit /\ [][CodecNext]_vars

\* extract_slice and decode on bytes as they came.
RawNext == ExtractRaw \/ DecodeRaw

RawSpec == RawInit /\ [][RawNext]_vars

\* A connection from the call of new_client / new_server on: the handshake,
\* the bootstrap of a bus connection, the user's calls.
ConnectNext ==
    \/ \E e \in AuthEvents : AuthStep(e)
    \/ CredentialsFail
    \/ ConstructorReturn
    \/ \E t \in Tasks : HelloCall(t)
    \/ \E t \in Tasks : HelloReturn(t)
    \/ \E t \in Tasks : UserCall(t)
    \/ \E t \in Tasks : StartSend(t)
    \/ \E t \in Tasks : PollFlush(t)
    \/ \E t \in Tasks : TryNext(t)
    \/ \E t \in Tasks : HandleMessage(t)
    \/ \E c \in CallsReceived : PeerReply(c, "MethodReturn")
    \/ \E c \in CallsReceived, n \in Names : PeerHello(c, n)
    \/ PeerSignal

ConnectSpec == ConnectInit /\ [][ConnectNext]_vars

\* A client connection from its constructor on: the bootstrap of a bus
\* connection, then the user's calls and set_unique_name.
BusNext ==
    \/ \E t \in Tasks : HelloCall(t)
    \/ \E t \in Tasks : HelloReturn(t)
    \/ \E n \in Names : SetUniqueName(n)
    \/ \E t \in Tasks : UserCall(t)
    \/ \E t \in Tasks : StartSend(t)
    \/ \E t \in Tasks : PollFlush(t)
    \/ \E t \in Tasks : TryNext(t)
    \/ \E t \in Tasks : HandleMessage(t)
    \/ \E c \in CallsReceived, ty \in {"MethodReturn", "Error"} : PeerReply(c, ty)
    \/ \E c \in CallsReceived, n \in Names : PeerHello(c, n)
    \/ PeerSignal
    \/ PeerClose

BusSpec == BusInit /\ [][BusNext]_vars

\* ------------------------------------------------------------ claims

Returned(t) == result[t].kind \in {"Ok", "MethodError"}

\* C1: a message call_method hands back, as Ok(MethodReturn) or inside
\* MethodError, has a ReplySerial equal to the serial send_message assigned
\* to that call's MethodCall, and is the reply the peer wrote for that very
\* call, whatever else arrived in between.
C1_ReplyCorrelation ==
    \A t \in Tasks :
        Returned(t) =>
            /\ result[t].msg.reply_serial = msg[t].serial
            /\ <<t, result[t].msg.reply_serial>> \in Range(issued)
            /\ result[t].msg.member = t
            /\ result[t].msg.type =
                   (IF result[t].kind = "Ok" THEN "MethodReturn" ELSE "Error")

\* C1 witness: a call got its reply although both signals and the reply to
\* the other call arrived before it.
C1_Witness ==
    \E t \in Tasks :
        /\ Returned(t)
        /\ result[t].msg.seq = Cardinality(Tasks) + MaxSignals
        /\ \E u \in Tasks : ~Returned(u)

\* Nothing but the two calls and the peer is at work and the connection is
\* as constructed: no stream consumer took a message, the peer is there.
OnlyCalls ==
    /\ delivered = <<>>
    /\ ~stream_ended
    /\ ~closed
    /\ max_queued = DEFAULT_MAX_QUEUED

\* C2: two concurrent call_method calls whose peer answered both, in any
\* order, both return, each with its own reply: once the peer has answered
\* both and no client task can take a step any more, both have returned.
C2_BothReturn ==
    (OnlyCalls /\ answered = Tasks /\ ~ENABLED ClientStep) =>
        \A t \in Tasks : Returned(t) /\ result[t].msg.member = t

\* C3: the in-queue never holds more than max_queued messages.
C3_InQueueBounded == Len(in_queue) <= max_queued

\* C4: the receive stream yields messages in the order they arrived on the
\* socket; stated for the messages the stream took from the in-queue, where
\* a call_method had put them.
C4_ArrivalOrder ==
    \A i, j \in 1..Len(delivered) :
        (i < j /\ delivered[i].src = "queue" /\ delivered[j].src = "queue")
            => delivered[i].m.seq < delivered[j].m.seq

\* C5: successive next_serial calls return 1 first, then each time the
\* previous value plus 1, never 0, and 1 again after the largest value of
\* the counter.
C5_SerialSequence ==
    \A i \in 1..Len(issued) :
        /\ issued[i][2] # 0
        /\ i = 1 => issued[i][2] = 1
        /\ i > 1 => issued[i][2] =
                       (IF issued[i - 1][2] = U32_MAX THEN 1 ELSE issued[i - 1][2] + 1)

\* C5 witness: the counter went through its largest value and came back to 1.
C5_Witness ==
    /\ Len(issued) > U32_MAX
    /\ issued[U32_MAX][2] = U32_MAX
    /\ issued[U32_MAX + 1][2] = 1

InFlight(t) == pc[t] \notin {"idle", "done"}

\* the i-th and the j-th serial handed out are less than one wrap apart
WithinOneWrap(i, j) == i - j < U32_MAX /\ j - i < U32_MAX

\* C6: within one wrap of the counter no two send_message calls obtain the
\* same serial, whatever the interleaving of the tasks, and two sends in
\* flight at the same time, begun within one wrap, carry different serials.
C6_SerialsUnique ==
    /\ \A i, j \in 1..Len(issued) :
          (i # j /\ WithinOneWrap(i, j)) => issued[i][2] # issued[j][2]
    /\ \A t, u \in Tasks :
          (t # u /\ InFlight(t) /\ InFlight(u) /\ WithinOneWrap(msg[t].seq, msg[u].seq))
              => msg[t].serial # msg[u].serial

\* C6 witness: both tasks have a send in flight, each with the serial it was
\* given, after the counter wrapped.
C6_Witness ==
    /\ \A t \in Tasks : InFlight(t) /\ issued[msg[t].seq] = <<t, msg[t].serial>>
    /\ Len(issued) > U32_MAX

\* how often chunk i of message m was written to the socket
TimesWritten(w, m, i) == Cardinality({n \in 1..Len(w) : w[n] = [m |-> m, i |-> i]})

\* C7: when send_message returns Ok(s), s is in the header of the message
\* and is what next_serial returned in that call, the message went into the
\* outbound buffer once and onto the socket whole, and the outbound buffer
\* is empty.
C7_SendMessageOk ==
    [][\A t \in Tasks :
          (pc[t] \in {"flush", "sig_flush"} /\ pc'[t] = AfterFlush(pc[t])) =>
              /\ outbound' = <<>>
              /\ \A i \in 1..MsgChunks : TimesWritten(wire', msg[t], i) = 1
              /\ issued[msg[t].seq] = <<t, msg[t].serial>>
              /\ pc[t] = "sig_flush" =>
                    result'[t] = [kind |-> "Sent", msg |-> msg[t], at |-> Len(issued)]
      ]_vars

\* C7 witness: an emit_signal returned after its message had been written
\* in two flushes while the other task had a message in the buffer too.
C7_Witness ==
    \E t \in Tasks :
        /\ result[t].kind = "Sent"
        /\ pc[t] = "idle"
        /\ Len(wire) > MsgChunks
        /\ outbound # <<>>

\* the step in which task t's start_send returns
StartSendReturns(t) == pc[t] \in {"start_send", "sig_start_send"} /\ pc'[t] # pc[t]

\* C10: on a connection without fd-passing, sending a message that carries
\* a file descriptor fails Unsupported and leaves the outbound buffer, the
\* pending fds and the bytes on the socket as they were; a message without
\* fds is accepted.
C10_FdUnsupported ==
    [][\A t \in Tasks :
          (StartSendReturns(t) /\ ~cap_unix_fd) =>
              IF msg[t].fds
              THEN /\ result'[t].kind = "Unsupported"
                   /\ pc'[t] = AfterError(pc[t])
                   /\ UNCHANGED <<outbound, out_fds, wire>>
              ELSE /\ result'[t].kind # "Unsupported"
                   /\ pc'[t] = AfterStartSend(pc[t])
                   /\ outbound' = outbound \o ToBytes(msg[t])
                   /\ UNCHANGED <<out_fds, wire>>
      ]_vars

\* C10 witness: a send with an fd was refused while half of another message
\* was waiting in the outbound buffer, and an earlier message without fds is
\* on the socket.
C10_Witness ==
    /\ ~cap_unix_fd
    /\ \E t \in Tasks : result[t].kind = "Unsupported" /\ result[t].msg.fds
    /\ Len(outbound) = 1
    /\ \E c \in Range(wire) : ~c.m.fds

\* the step in which task t's call_method handles the message with its serial
HandlesMatch(t) ==
    pc[t] = "got" /\ pc'[t] # "got" /\ cur[t].reply_serial = msg[t].serial

\* C8: when the message with the call's serial is an Error, call_method
\* fails with MethodError carrying that message, and nothing of the
\* connection is put into a failed state by it: the serial counter, the
\* socket and the outbound buffer are as before, the in-queue only gained
\* what the call had retained, and the other task is untouched.
C8_MethodError ==
    [][\A t \in Tasks :
          (HandlesMatch(t) /\ cur[t].type = "Error") =>
              /\ pc'[t] = "done"
              /\ result'[t].kind = "MethodError"
              /\ result'[t].msg = cur[t]
              /\ in_queue' = in_queue \o tmp_queue[t]
              /\ UNCHANGED <<serial, max_queued, cap_unix_fd, raw_vars>>
              /\ \A u \in Tasks \ {t} :
                    UNCHANGED <<pc[u], msg[u], tmp_queue[u], cur[u], result[u]>>
      ]_vars

\* C8 witness: a call failed with MethodError, and a call begun after that
\* (its serial was handed out later) completed with its own reply.
C8_Witness ==
    \E t, u \in Tasks :
        /\ result[t].kind = "MethodError"
        /\ result[t].at < msg[u].seq
        /\ result[u].kind = "Ok"
        /\ result[u].msg.reply_serial = msg[u].serial
        /\ result[u].msg.member = u

\* The peer closed the socket and nothing it wrote is left to be observed:
\* the socket and the in-queue are empty and no task holds a message it has
\* not looked at yet.
Drained ==
    /\ closed
    /\ sock_in = <<>>
    /\ in_queue = <<>>
    /\ \A t \in Tasks : pc[t] # "got"

\* C9: once the peer has closed the socket and try_receive_message reports
\* BrokenPipe, every call_method in progress fails with Io(BrokenPipe): none
\* stays pending and none returns Ok.  The receive stream then reports
\* end-of-stream and yields no further item.
C9_BrokenPipe ==
    /\ \A t \in Tasks :
          (Drained /\ InFlight(t)) ~> (pc[t] = "done" /\ result[t].kind = "BrokenPipe")
    /\ [][(Drained /\ <<delivered, stream_ended>>' # <<delivered, stream_ended>>)
             => (stream_ended' /\ delivered' = delivered)]_vars

\* C9 witness: the peer closed while both calls were waiting; both failed
\* with BrokenPipe and the stream ended.
C9_Witness ==
    /\ closed
    /\ \A t \in Tasks : result[t].kind = "BrokenPipe"
    /\ stream_ended
    /\ Cardinality(CallsReceived) = Cardinality(Tasks)

\* C11: the unique name is set-once.  A set_unique_name succeeds exactly
\* when no name is stored; one made when a name is stored fails; and a stored
\* name is the same in every later state.
C11_UniqueNameSetOnce ==
    [][/\ unique_name # NoName => unique_name' = unique_name
       /\ name_result' # name_result =>
             IF unique_name = NoName
             THEN name_result' = "Ok" /\ unique_name' \in Names
             ELSE name_result' = "Err"]_vars

\* the bus assigned a name at the bootstrap and the user's set_unique_name
\* with another name failed
C11_Witness ==
    /\ bus_connection
    /\ name_result = "Err"
    /\ unique_name \in Names
    /\ \E t \in Tasks : result[t].msg.body = unique_name

\* C12: on a client bus connection the first message written to the socket
\* is the Hello call, the unique name is unset while the constructor has the
\* connection, and the user gets the connection only with the unique name set
\* to the body of the Hello reply.
C12_BusBootstrap ==
    bus_connection =>
        /\ wire # <<>> => (wire[1].m.type = "MethodCall" /\ wire[1].m.member = Hello)
        /\ owner = "constructor" => unique_name = NoName
        /\ owner = "user" =>
              \E t \in Tasks :
                  /\ msg[t].member = Hello
                  /\ result[t].kind = "Ok"
                  /\ result[t].msg.reply_serial = msg[t].serial
                  /\ result[t].msg.body \in Names
                  /\ unique_name = result[t].msg.body

\* the bus handed out the last of its names, after a signal, and the user's
\* own call is on the socket behind the Hello call
C12_Witness ==
    /\ bus_connection
    /\ owner = "user"
    /\ unique_name = MaxNames
    /\ nsignals > 0
    /\ Len(wire) > MsgChunks
    /\ wire[Len(wire)].m.member \in Tasks

\* a received message is still to be had: it waits in the in-queue or the
\* receive stream has yielded it
Kept(q) ==
    \/ \E m \in Range(in_queue) : m.seq = q
    \/ \E d \in Range(delivered) : d.m.seq = q

\* the reports of receive errors: error items of the stream and calls that
\* failed on one
ErrorReports ==
    Cardinality({i \in 1..Len(delivered) : delivered[i].src = "error"})
        + Cardinality({t \in Tasks : result[t].kind = "CodecError"})

\* C13: a message that fails to parse is reported once, for that message, and
\* costs nothing else: the messages a pending call_method had taken off the
\* socket and retained before the failure are still to be had.
C13_CodecFailureIsolated ==
    /\ ErrorReports <= nbad
    /\ \A t \in Tasks :
          result[t].kind = "CodecError" => \A q \in lost[t] : Kept(q)

\* C14: the messages a call_method had drained and retained when it was
\* dropped at a suspension point are in the in-queue or were yielded by the
\* receive stream.
C14_CancelKeepsDrained ==
    \A t \in Tasks : pc[t] = "cancelled" => \A q \in lost[t] : Kept(q)

\* the send of task t's message failed after its serial was assigned, or the
\* call that owns it was given up
Abandoned(t) == result[t].kind = "Unsupported" \/ pc[t] = "cancelled"

\* C15: an issued serial is not recycled.  The counter moves only when a
\* serial is handed out, and then forward; a step in which a send fails or a
\* call is given up leaves it alone; and the serial of a failed or given-up
\* message is not handed out again within one wrap.
C15_SerialNotRecycled ==
    /\ [][/\ IF Len(issued') > Len(issued)
             THEN serial' = (IF serial = U32_MAX THEN 1 ELSE serial + 1)
             ELSE serial' = serial
          /\ \A t \in Tasks : (~Abandoned(t) /\ Abandoned(t)') => serial' = serial]_vars
    /\ [](\A t \in Tasks : \A j \in 1..Len(issued) :
             (Abandoned(t) /\ msg[t].seq < j /\ WithinOneWrap(msg[t].seq, j))
                 => issued[j][2] # msg[t].serial)

\* a call was given up, then a send was refused with its serial assigned,
\* and the serial after those two went to a message that was accepted
C15_Witness ==
    /\ ~cap_unix_fd
    /\ Len(issued) = MaxSends
    /\ \E t, u \in Tasks :
          /\ pc[u] = "cancelled"
          /\ msg[u].seq = 1
          /\ issued[2][1] = t
          /\ \A c \in Range(wire \o outbound) : c.m.seq # 2
          /\ msg[t].seq = MaxSends
          /\ pc[t] = "sig_flush"

\* everything enqueued so far: what reached the socket, then what waits
Outgoing == wire \o outbound

\* b is a concatenation of whole serialized messages, each once
WholeMessages(b) ==
    /\ Len(b) % MsgChunks = 0
    /\ \A k \in 1..Len(b) :
          /\ b[k].i = ((k - 1) % MsgChunks) + 1
          /\ b[k].m = b[k - ((k - 1) % MsgChunks)].m
    /\ \A k, l \in 1..Len(b) : (b[k].m.seq = b[l].m.seq) => (k - l < MsgChunks /\ l - k < MsgChunks)

\* C16: the bytes written to the socket, followed by those still buffered,
\* are the serialized messages in start_send order, each whole and once: a
\* start_send appends its message behind everything enqueued before, a flush
\* only moves the front of the buffer to the socket and takes up where the
\* last write stopped, and nothing written is taken back.
C16_OutboundOrder ==
    /\ [](WholeMessages(Outgoing))
    /\ [][\/ /\ Outgoing' = Outgoing
             /\ Len(wire') >= Len(wire)
          \/ \E t \in Tasks :
                /\ StartSendReturns(t)
                /\ wire' = wire
                /\ Outgoing' = Outgoing \o ToBytes(msg[t])]_vars

\* the second message enqueued has the lower serial, a write has stopped in
\* the middle of it, and the rest of it waits in the buffer
C16_Witness ==
    /\ Len(wire) = MsgChunks + 1
    /\ wire[1].m.serial > wire[Len(wire)].m.serial
    /\ wire[1].m.member # wire[Len(wire)].m.member
    /\ outbound # <<>>
    /\ outbound[1].m = wire[Len(wire)].m

\* task t waits for the socket, or for its next poll
Suspended(t) == pc[t] \in {"flush", "sig_flush", "recv"}

\* nobody but u is inside a poll
OnlyRunning(u) == \A v \in Tasks \ {u} : ~MidPoll(v)

\* C17: a task suspended in poll_flush or poll_next holds neither the
\* raw-connection lock nor the in-queue lock; so with a reader waiting for
\* the socket another task can enqueue and flush, and with a writer waiting
\* for the socket another task can take the in-queue and receive.
C17_NoLockAcrossSuspension ==
    /\ \A t \in Tasks : Suspended(t) => (raw_lock # t /\ queue_lock # t)
    /\ \A t, u \in Tasks :
          (t # u /\ pc[t] = "recv" /\ OnlyRunning(u)) =>
              /\ pc[u] \in {"start_send", "sig_start_send"} => ENABLED LockedStartSend(u)
              /\ pc[u] \in {"flush", "sig_flush"} => ENABLED FlushLock(u)
              /\ pc[u] \in {"flush_locked", "sig_flush_locked"} => ENABLED FlushTry(u)
    /\ \A t, u \in Tasks :
          (t # u /\ pc[t] \in {"flush", "sig_flush"} /\ OnlyRunning(u)) =>
              /\ pc[u] = "recv" => ENABLED NextLockQueue(u)
              /\ pc[u] = "recv_raw_wait" => ENABLED NextLockRaw(u)
              /\ pc[u] = "recv_raw" => ENABLED NextReceive(u)

\* a reader found nothing to read and waits, and a sender whose message was
\* enqueued later has written part of it and is flushing the rest under the
\* raw-connection lock
C17_Witness ==
    \E t, u \in Tasks :
        /\ pc[t] = "recv"
        /\ sock_in = <<>> /\ in_queue = <<>> /\ ~closed
        /\ pc[u] = "flush_locked"
        /\ raw_lock = u
        /\ Len(wire) > MsgChunks
        /\ outbound # <<>>
        /\ msg[u].serial > msg[t].serial

\* the smallest p with offset + p divisible by 4
SmallestPad(offset) == CHOOSE q \in 0..3 : (offset + q) % 4 = 0

\* the encoded bytes behind the padding
Framed == SubSeq(cbytes, SmallestPad(coff) + 1, Len(cbytes))

\* C18: a string or an object path encoded at any offset, its padding
\* skipped, is framed by extract_slice as exactly its encoding, whatever
\* follows it, and decode gives the value back.
C18_StringRoundTrip ==
    ckind \in {"s", "o"} =>
        /\ cpc \in {"sliced", "decoded"} => (cslice.ok /\ cslice.bytes = Framed)
        /\ cpc = "decoded" => (cout.ok /\ cout.bytes = cval)

\* the object path "hello" at offset 3, with a byte behind it, came back
C18_Witness ==
    /\ ckind = "o"
    /\ cpc = "decoded"
    /\ coff = 3
    /\ cval = <<104, 101, 108, 108, 111>>
    /\ ctail # <<>>
    /\ cout.bytes = cval
    /\ Len(cslice.bytes) + 1 = Len(cbytes)

\* C19: a string of n bytes encoded at an offset is p zero bytes, p the
\* smallest number that makes offset + p a multiple of 4, then n in four
\* bytes, the n bytes of the string and one NUL: p + 4 + n + 1 bytes.
C19_StringLayout ==
    (ckind = "s" /\ cpc \notin {"none", "input"}) =>
        LET n == Len(cval)
            p == SmallestPad(coff) IN
        /\ Len(cbytes) = p + 4 + n + 1
        /\ (coff + p) % 4 = 0
        /\ \A i \in 1..p : cbytes[i] = 0
        /\ ReadU32(SubSeq(cbytes, p + 1, p + 4)) = n
        /\ SubSeq(cbytes, p + 5, p + 4 + n) = cval
        /\ cbytes[p + 4 + n + 1] = 0

\* the longest string at the largest offset: its length takes the second
\* byte of the prefix
C19_Witness ==
    /\ ckind = "s"
    /\ cpc = "encoded"
    /\ coff = MaxOffset
    /\ Len(cval) = LongLen
    /\ cbytes[SmallestPad(coff) + 2] = LongLen \div 256
    /\ Len(cbytes) = SmallestPad(coff) + LongLen + 5

\* C20: a signature encodes, at any offset, to one byte holding its length,
\* its bytes and one NUL, and extract_slice and decode give it back.
C20_SignatureRoundTrip ==
    ckind = "g" =>
        /\ cpc \notin {"none", "input"} =>
              (/\ Len(cbytes) = Len(cval) + 2
               /\ cbytes[1] = Len(cval)
               /\ SubSeq(cbytes, 2, Len(cval) + 1) = cval
               /\ cbytes[Len(cbytes)] = 0)
        /\ cpc = "decoded" => (cout.ok /\ cout.bytes = cval)

\* the bytes are fewer than the field of type k needs: fewer than its length
\* prefix, or fewer than prefix, declared length and NUL
TooShort(k, b) ==
    IF k = "g"
    THEN Len(b) < 1 \/ Len(b) < 1 + b[1] + 1
    ELSE Len(b) < 4 \/ Len(b) < 4 + ReadU32(b) + 1

\* C21: on bytes fewer than the field needs, extract_slice and decode of
\* strings, object paths and signatures return InsufficientData, and on no
\* input do they slice out of bounds.
C21_ShortInputIsError ==
    /\ cpc \in {"raw_sliced", "raw_decoded"} =>
          /\ cslice.err # "Panic"
          /\ TooShort(ckind, cbytes) => cslice.err = "InsufficientData"
    /\ cpc = "raw_decoded" =>
          /\ cout.err # "Panic"
          /\ TooShort(ckind, cbytes) => cout.err = "InsufficientData"

\* nothing of the D-Bus message protocol was sent or received on this end
NoBinaryTraffic ==
    /\ wire = <<>>
    /\ outbound = <<>>
    /\ issued = <<>>
    /\ in_queue = <<>>
    /\ delivered = <<>>
    /\ \A t \in Tasks : pc[t] = "idle" /\ cur[t] = NoMsg /\ tmp_queue[t] = <<>>

\* C22: there is a Connection, in the constructor's hands or the user's,
\* only when the authentication state machine reached Ready; after a failed
\* handshake the constructor returns an error for good; and up to the end
\* of the handshake, and ever after a failed one, no D-Bus message, Hello
\* included, is sent or received on the socket.
C22_ConnectionAfterHandshake ==
    /\ [](owner \in {"constructor", "user", "dropped"} => hs = "Ready")
    /\ [](owner \in {"handshake", "failed"} => NoBinaryTraffic)
    /\ [][(hs = "Failed" \/ owner = "failed")
            => (hs' = hs /\ owner' \in {owner, "failed"})]_vars

\* a server's handshake failed on the uid check, new_server returned the
\* error, and what the peer wrote after that was never read
C22_Witness ==
    /\ role = "server"
    /\ hs = "Failed"
    /\ owner = "failed"
    /\ nsignals = MaxSignals
    /\ Len(sock_in) = MaxSignals

\* the step in which task t's call_method handles a message that does not
\* carry its serial
HandlesOther(t) ==
    pc[t] = "got" /\ pc'[t] # "got" /\ cur[t].reply_serial # msg[t].serial

\* C23: a non-matching message a pending call_method receives is retained
\* exactly when the length of the in-queue plus the number of messages the
\* call has retained so far is less than max_queued; otherwise it is
\* discarded, and the call goes on without an error.  With max_queued = 0
\* nothing is retained.  When the message with the call's serial is
\* observed, what was retained goes to the end of the in-queue, in the
\* order it was retained.
C23_DropPolicy ==
    [][\A t \in Tasks :
          /\ HandlesOther(t) =>
                /\ IF Len(in_queue) + Len(tmp_queue[t]) < max_queued
                   THEN /\ tmp_queue'[t] = tmp_queue[t] \o <<cur[t]>>
                        /\ dropped' = dropped
                   ELSE /\ tmp_queue'[t] = tmp_queue[t]
                        /\ dropped' = dropped \cup {cur[t].seq}
                /\ max_queued = 0 => tmp_queue'[t] = <<>>
                /\ pc'[t] = "recv"
                /\ result'[t] = result[t]
                /\ in_queue' = in_queue
          /\ HandlesMatch(t) =>
                /\ in_queue' = in_queue \o tmp_queue[t]
                /\ tmp_queue'[t] = <<>>
                /\ dropped' = dropped
      ]_vars

\* C23 witness: with max_queued = 1 a call retained one message, discarded
\* another, and on its reply moved the retained one to the in-queue.
C23_Witness ==
    /\ max_queued = 1
    /\ ~closed
    /\ delivered = <<>>
    /\ \E t \in Tasks :
          /\ Returned(t)
          /\ Len(in_queue) = 1
          /\ dropped # {}
          /\ \A d \in dropped : in_queue[1].seq < d /\ d < result[t].msg.seq

\* what a poll_next that is not Pending takes, seen from the state before
\* it: the last message of a non-empty in-queue and nothing of the socket,
\* and the head of the socket only when the in-queue is empty
TakesQueueFirst(m) ==
    IF in_queue # <<>>
    THEN /\ m = in_queue[Len(in_queue)]
         /\ in_queue' = SubSeq(in_queue, 1, Len(in_queue) - 1)
         /\ sock_in' = sock_in
    ELSE /\ sock_in # <<>>
         /\ m = Head(sock_in)
         /\ sock_in' = Tail(sock_in)
         /\ in_queue' = in_queue

\* C24: poll_next serves the in-queue before the socket, for the stream
\* consumer and for call_method's try_next alike: with a non-empty in-queue
\* it yields a queued message and leaves the socket alone, and it reads the
\* socket only with an empty in-queue.  End-of-stream (for call_method:
\* BrokenPipe) is reported only when the in-queue is empty, so what is
\* queued when the peer closes is yielded first.
C24_QueueBeforeSocket ==
    [][/\ delivered' # delivered =>
             /\ Len(delivered') = Len(delivered) + 1
             /\ TakesQueueFirst(delivered'[Len(delivered')].m)
             /\ (delivered'[Len(delivered')].src = "queue") = (in_queue # <<>>)
       /\ (stream_ended' /\ ~stream_ended) =>
             in_queue = <<>> /\ sock_in = <<>> /\ closed
       /\ \A t \in Tasks :
             /\ (pc[t] = "recv" /\ pc'[t] = "got") => TakesQueueFirst(cur'[t])
             /\ (pc[t] = "recv" /\ result'[t].kind = "BrokenPipe") =>
                   in_queue = <<>> /\ sock_in = <<>> /\ closed
      ]_vars

\* C24 witness: the stream ended after the peer closed, and the last two
\* messages it yielded came from the in-queue.
C24_Witness ==
    /\ closed
    /\ stream_ended
    /\ Len(delivered) >= 2
    /\ \A i \in (Len(delivered) - 1)..Len(delivered) : delivered[i].src = "queue"

\* the messages the connection holds or has still to read: on the socket,
\* in the in-queue, retained by a call, or in a call's hands
Held ==
    Range(sock_in) \cup Range(in_queue)
        \cup UNION {Range(tmp_queue[t]) : t \in Tasks}
        \cup {cur[t] : t \in Tasks}

\* the peer has written the reply to task u's call, and the call is pending
AwaitsWrittenReply(u) == pc[u] \in {"recv", "got"} /\ u \in answered

\* C25: a reply whose ReplySerial is the serial of a call_method still
\* pending is never discarded: as long as the peer has not closed the
\* socket, the reply written for a pending call is still on the socket, in
\* the in-queue, retained by some call or in some call's hands.
C25_ReplyNeverDropped ==
    \A u \in Tasks :
        (AwaitsWrittenReply(u) /\ ~closed) =>
            \E m \in Held : m.member = u /\ m.reply_serial = msg[u].serial

\* the messages that were received from the socket and not handed to anyone
\* yet
Received ==
    Range(in_queue)
        \cup UNION {Range(tmp_queue[t]) : t \in Tasks}
        \cup {cur[t] : t \in Tasks}

\* the reply to task t's pending call has been received from the socket
ReplyReceived(t) ==
    /\ pc[t] \in {"recv", "got"}
    /\ \E m \in Received : m.member = t /\ m.reply_serial = msg[t].serial

\* C26: with max_queued at its default, once the reply to a pending
\* call_method has been received from the socket, whichever task took it,
\* that call_method eventually returns, under fair polling of the tasks
\* that can make progress, whatever the peer does or does not do afterwards.
C26_ReplyDeliveryLive ==
    \A t \in Tasks :
        (ReplyReceived(t) /\ max_queued = DEFAULT_MAX_QUEUED) ~> (pc[t] = "done")

\* C27: poll_close does not get stuck on the connection's own locks: a task
\* that called it is never left blocked for good inside it, and it never
\* fails on the lock; it flushes, half-closes and returns Ready.
C27_CloseTerminates ==
    \A t \in Tasks :
        /\ pc[t] # "close_blocked"
        /\ result[t].kind # "Panic"

====
